---- MODULE Spec2Model ----
(***************************************************************************)
(* SmartTranslator: the translation pipeline of the repository.            *)
(*                                                                         *)
(* The repository holds three units that are run on their own:             *)
(*   - geminiService.translateText   (src/unnamed/part_000)                *)
(*   - components/TranslationPlayground.tsx, which calls translateText     *)
(*   - App.tsx, a single-file variant with its own handleTranslate and a   *)
(*     history persisted in localStorage                                   *)
(* A behaviour of Spec runs one of them; `unit` says which.                *)
(*                                                                         *)
(* Strings whose content the code inspects (trim, truthiness) are          *)
(* sequences of one-character strings; messages are opaque strings.        *)
(***************************************************************************)
EXTENDS Naturals, Sequences, FiniteSets

VARIABLES
    unit,               \* which unit of the repository this behaviour runs
    calls,              \* number of ai.models.generateContent invocations so far
    now,                \* the clock read by Date.now()
    submits,            \* accepted user submissions so far (bounds the run)
    detours,            \* steps so far that leave the plain run of one request
                        \* after another: typing, a settings change, a click while
                        \* a request is scheduled or in flight (bounds the run)
    tt,                 \* a direct call of translateText: arguments, position, outcome
    \* TranslationPlayground
    settings,           \* props.settings: {mode, apiKey}
    status,             \* props.status, the AppStatus held by the parent
    errorMessage,       \* the last value passed to props.setErrorMessage
    pgInputText,        \* useState inputText (the textbox)
    pgHistory,          \* useState history, newest first
    pgHotkeys,          \* pending setTimeout(handleTranslate, 500), in firing order
    pgInflight,         \* translateText calls awaiting the service, each with the
                        \* history its submit found (`before`, observer)
    pgResets,           \* pending setTimeout(() => setStatus('READY'), ...)
    pgDone,             \* every successful result so far, newest first (observer)
    \* App
    API_KEY,            \* process.env.API_KEY ("" when it is not set)
    inputText,          \* useState inputText
    translatedText,     \* useState translatedText
    isTranslating,      \* useState isTranslating
    targetLang,         \* useState targetLang
    tone,               \* useState tone
    history,            \* useState history: the value of the committed render
    errorDetails,       \* useState errorDetails
    storage,            \* localStorage entry 'stp_elite_vault_v3'
    appInflight,        \* generateContent calls awaiting the service, each with the
                        \* history and stored snapshot its submit found (`before`,
                        \* observer)
    appTimers,          \* pending 600 ms result timers, in firing order
    effects,            \* passive effects of the last commit still to run
    queued,             \* a setHistory made by an effect, applied by the next render
    crashed,            \* an effect threw: React has unmounted the tree
    uuidSeq,            \* identifiers handed out by crypto.randomUUID so far
    restarts,           \* page reloads so far (bounds the run)
    lastOp,             \* what last set the history: "mount", "add", "purge" (observer)
    carried             \* the record added last before the last reload, if the
                        \* history has not been set since (observer)

svcVars == <<calls, now, submits, detours, tt>>
pgVars == <<settings, status, errorMessage, pgInputText, pgHistory, pgHotkeys,
            pgInflight, pgResets, pgDone>>
appVars == <<API_KEY, inputText, translatedText, isTranslating, targetLang, tone,
             history, errorDetails, storage, appInflight, appTimers, effects,
             queued, crashed, uuidSeq, restarts, lastOp, carried>>

----------------------------------------------------------------------------
(* Bounds of the model *)

\* user-initiated submissions (button clicks) and page reloads per behaviour
MaxEvents == 2

\* accepted submissions per behaviour of the capacity specification
MaxCapSubmits == 6

\* detours per behaviour of the capacity specification
MaxCapDetours == 1

\* submissions and page reloads per behaviour of the specification with
\* fairness for App
MaxOutcomeEvents == 1

----------------------------------------------------------------------------
(* JavaScript values *)

\* an optional value: <<>> is null/undefined, <<x>> is x
None == <<>>
Some(x) == <<x>>

\* character classes of String.prototype.trim
IsSpace(c) == c = " "

\* s.trimStart()
RECURSIVE TrimStart(_)
TrimStart(s) ==
    IF s = <<>> THEN <<>>
    ELSE IF IsSpace(Head(s)) THEN TrimStart(Tail(s)) ELSE s

\* s.trimEnd()
RECURSIVE TrimEnd(_)
TrimEnd(s) ==
    IF s = <<>> THEN <<>>
    ELSE IF IsSpace(s[Len(s)]) THEN TrimEnd(SubSeq(s, 1, Len(s) - 1)) ELSE s

\* String.prototype.trim() that returns its receiver untouched
TrimNothing(s) == s

\* s.trim()
Trim(s) == TrimEnd(TrimStart(s))

\* !s for a string s: only the empty string is falsy
Falsy(s) == s = <<>>

\* a.slice(0, n) of an array or string
Slice(a, n) == SubSeq(a, 1, IF Len(a) < n THEN Len(a) ELSE n)

----------------------------------------------------------------------------
(* The external service: ai.models.generateContent *)

\* a reply of generateContent: it resolves with a response whose .text is a
\* string or is absent, or it rejects with an error carrying a message
TextReply(t)  == [kind |-> "text",   text |-> t,    message |-> ""]
AbsentReply   == [kind |-> "absent", text |-> <<>>, message |-> ""]
ErrorReply(m) == [kind |-> "error",  text |-> <<>>, message |-> m]

\* texts the service answers with
ReplyTexts == { <<>>, <<" ">>, <<" ", "x", " ">> }

\* messages of the errors the service call rejects with ("" is an error
\* without a message)
ErrMessages == { "", "503 Service Unavailable", "Failed to fetch", "API_KEY_MISSING" }

Replies ==
    {TextReply(t) : t \in ReplyTexts} \cup {AbsentReply}
        \cup {ErrorReply(m) : m \in ErrMessages}


----------------------------------------------------------------------------
(* geminiService.translateText *)

\* the outcome of an async function: resolved with a value or rejected with
\* an Error whose message is given
Resolved(v) == [ok |-> TRUE,  value |-> v,    message |-> ""]
Rejected(m) == [ok |-> FALSE, value |-> <<>>, message |-> m]

TranslationModes == {"UZ_RU", "UZ_EN"}

\* the target language named in the system instruction
TargetLanguage(mode) == IF mode = "UZ_RU" THEN "Russian" ELSE "English"

\* translateText without its credential check
MissingApiKeyUnchecked(apiKey) == FALSE

\* if (!apiKey) throw new Error("API Key is required"): thrown before the
\* client is built, so before any call of generateContent
MissingApiKey(apiKey) == apiKey = ""

\* error.message || "Failed to communicate with Gemini API"
WrapMessage(m) == IF m = "" THEN "Failed to communicate with Gemini API" ELSE m

\* a catch block that returns the error's message as the translation
\* instead of rethrowing
TranslateTextSettleSwallow(reply) ==
    IF reply.kind = "error" THEN Resolved(<<"e", "r", "r">>)
    ELSE IF reply.kind = "absent" \/ Falsy(reply.text)
         THEN Rejected(WrapMessage("Empty response from AI"))
    ELSE Resolved(Trim(reply.text))

\* the part of translateText after `await generateContent`: what the call
\* settles to for a given reply of the service
TranslateTextSettle(reply) ==
    IF reply.kind = "error" THEN Rejected(WrapMessage(reply.message))
    ELSE IF reply.kind = "absent" \/ Falsy(reply.text)
         THEN Rejected(WrapMessage("Empty response from AI"))
    ELSE Resolved(Trim(reply.text))

\* texts the user types into a textbox
InputTexts == { <<>>, <<" ">>, <<"a">> }

ApiKeys == { "", "key" }

\* Date.now(): the clock has millisecond resolution and does not run
\* backwards, so a read returns the value of the previous read or a later one
ClockReads == { now, now + 1 }

\* removes element i of a sequence
RemoveAt(s, i) == SubSeq(s, 1, i - 1) \o SubSeq(s, i + 1, Len(s))

----------------------------------------------------------------------------
(* A direct call of translateText(text, mode, apiKey) *)

TtIdle == [pc |-> "none", text |-> <<>>, mode |-> "UZ_RU", apiKey |-> "",
           out |-> Rejected("")]

\* translateText up to its await
TtCall ==
    /\ unit = "geminiService"
    /\ tt.pc = "start"
    /\ IF MissingApiKey(tt.apiKey)
       THEN /\ tt' = [tt EXCEPT !.pc = "settled",
                                !.out = Rejected("API Key is required")]
            /\ calls' = calls
       ELSE /\ tt' = [tt EXCEPT !.pc = "awaiting"]
            /\ calls' = calls + 1
    /\ UNCHANGED <<unit, now, submits, detours>>
    /\ UNCHANGED pgVars
    /\ UNCHANGED appVars

\* the service answers and translateText settles
TtSettle ==
    /\ unit = "geminiService"
    /\ tt.pc = "awaiting"
    /\ \E reply \in Replies :
         tt' = [tt EXCEPT !.pc = "settled", !.out = TranslateTextSettle(reply)]
    /\ UNCHANGED <<unit, calls, now, submits, detours>>
    /\ UNCHANGED pgVars
    /\ UNCHANGED appVars

----------------------------------------------------------------------------
(* components/TranslationPlayground.tsx *)

\* the initial content of the textbox
PgInitialText == <<"S", "a", "l", "o", "m">>

\* the length the history is sliced to
PgHistoryCap == 5

MissingKeyNotice == "Please set an API Key in Settings first."

\* error.message || "Failed to translate"
PgErrorText(m) == IF m = "" THEN "Failed to translate" ELSE m

\* the slice taken before the new result is put in front
PgPrependSliceFirst(result, prev) == <<result>> \o Slice(prev, PgHistoryCap)

\* [result, ...prev].slice(0, 5)
PgPrepend(result, prev) == Slice(<<result>> \o prev, PgHistoryCap)

\* disabled={status === 'TRANSLATING'} of the 'Simulate Alt+T' button
SimulateDisabled == status = "TRANSLATING"

\* onChange of the textarea
PgOnChange ==
    /\ unit = "TranslationPlayground"
    /\ \E t \in InputTexts : t # pgInputText /\ pgInputText' = t
    /\ UNCHANGED <<settings, status, errorMessage, pgHistory, pgHotkeys,
                   pgInflight, pgResets, pgDone>>
    /\ UNCHANGED <<unit, calls, now, submits, tt>>
    /\ UNCHANGED appVars

\* Settings.handleSave: onUpdate({ apiKey }); the parent passes the merged
\* settings down to the playground
PgOnUpdateApiKey ==
    /\ unit = "TranslationPlayground"
    /\ \E k \in ApiKeys : k # settings.apiKey /\ settings' = [settings EXCEPT !.apiKey = k]
    /\ UNCHANGED <<status, errorMessage, pgInputText, pgHistory, pgHotkeys,
                   pgInflight, pgResets, pgDone>>
    /\ UNCHANGED <<unit, calls, now, submits, tt>>
    /\ UNCHANGED appVars

\* the mode buttons of Settings: onUpdate({ mode })
PgOnUpdateMode ==
    /\ unit = "TranslationPlayground"
    /\ \E m \in TranslationModes : m # settings.mode /\ settings' = [settings EXCEPT !.mode = m]
    /\ UNCHANGED <<status, errorMessage, pgInputText, pgHistory, pgHotkeys,
                   pgInflight, pgResets, pgDone>>
    /\ UNCHANGED <<unit, calls, now, submits, tt>>
    /\ UNCHANGED appVars

\* simulateHotkey: a click on the button schedules handleTranslate of the
\* current render, which closes over the current inputText and settings
\* (the user's steps leave `detours` to the specification that runs them)
PgSimulateHotkeyUpTo(max) ==
    /\ unit = "TranslationPlayground"
    /\ ~SimulateDisabled
    /\ submits < max
    /\ submits' = submits + 1
    /\ pgHotkeys' = Append(pgHotkeys, [text |-> pgInputText, settings |-> settings])
    /\ UNCHANGED <<settings, status, errorMessage, pgInputText, pgHistory,
                   pgInflight, pgResets, pgDone>>
    /\ UNCHANGED <<unit, calls, now, tt>>
    /\ UNCHANGED appVars

\* handleTranslate that issues its request twice
PgHandleTranslateTwice(text, cfg) ==
    IF Falsy(Trim(text))
    THEN UNCHANGED <<status, errorMessage, pgInflight, pgResets, calls>>
    ELSE IF cfg.apiKey = ""
    THEN /\ errorMessage' = Some(MissingKeyNotice)
         /\ UNCHANGED <<status, pgInflight, pgResets, calls>>
    ELSE /\ status' = "TRANSLATING"
         /\ pgInflight' = pgInflight \o
                <<[text |-> text, mode |-> cfg.mode, apiKey |-> cfg.apiKey,
                   before |-> pgHistory],
                  [text |-> text, mode |-> cfg.mode, apiKey |-> cfg.apiKey,
                   before |-> pgHistory]>>
         /\ calls' = calls + 2
         /\ UNCHANGED <<errorMessage, pgResets>>

\* handleTranslate up to its await, with the inputText and the settings it
\* closed over
PgHandleTranslate(text, cfg) ==
    IF Falsy(Trim(text))
    THEN UNCHANGED <<status, errorMessage, pgInflight, pgResets, calls>>
    ELSE IF cfg.apiKey = ""
    THEN /\ errorMessage' = Some(MissingKeyNotice)
         /\ UNCHANGED <<status, pgInflight, pgResets, calls>>
    ELSE IF MissingApiKey(cfg.apiKey)
    THEN \* translateText throws at once: the catch block runs
         /\ status' = "ERROR"
         /\ errorMessage' = Some(PgErrorText("API Key is required"))
         /\ pgResets' = pgResets + 1
         /\ UNCHANGED <<pgInflight, calls>>
    ELSE /\ status' = "TRANSLATING"
         /\ pgInflight' = Append(pgInflight,
                [text |-> text, mode |-> cfg.mode, apiKey |-> cfg.apiKey,
                 before |-> pgHistory])
         /\ calls' = calls + 1
         /\ UNCHANGED <<errorMessage, pgResets>>

\* the 500 ms timer of simulateHotkey fires
PgHotkeyFires ==
    /\ unit = "TranslationPlayground"
    /\ pgHotkeys # <<>>
    /\ PgHandleTranslate(Head(pgHotkeys).text, Head(pgHotkeys).settings)
    /\ pgHotkeys' = Tail(pgHotkeys)
    /\ UNCHANGED <<settings, pgInputText, pgHistory, pgDone>>
    /\ UNCHANGED <<unit, now, submits, detours, tt>>
    /\ UNCHANGED appVars

\* handleTranslate after its await, its catch block without the
\* setTimeout that returns the status to READY
PgSettleNoErrorTimer(i, reply) ==
    LET text == pgInflight[i].text
        out  == TranslateTextSettle(reply)
    IN  /\ pgInflight' = RemoveAt(pgInflight, i)
        /\ IF out.ok
           THEN /\ \E ts \in ClockReads :
                     /\ now' = ts
                     /\ LET result == [original |-> text, translated |-> out.value,
                                       timestamp |-> ts]
                        IN  /\ pgHistory' = PgPrepend(result, pgHistory)
                            /\ pgDone' = <<result>> \o pgDone
                /\ pgInputText' = out.value
                /\ status' = "SUCCESS"
                /\ pgResets' = pgResets + 1
                /\ UNCHANGED errorMessage
           ELSE /\ status' = "ERROR"
                /\ errorMessage' = Some(PgErrorText(out.message))
                /\ UNCHANGED <<now, pgInputText, pgHistory, pgDone, pgResets>>

\* handleTranslate after its await: request i settles for `reply`
PgSettle(i, reply) ==
    LET text == pgInflight[i].text
        out  == TranslateTextSettle(reply)
    IN  /\ pgInflight' = RemoveAt(pgInflight, i)
        /\ pgResets' = pgResets + 1
        /\ IF out.ok
           THEN /\ \E ts \in ClockReads :
                     /\ now' = ts
                     /\ LET result == [original |-> text, translated |-> out.value,
                                       timestamp |-> ts]
                        IN  /\ pgHistory' = PgPrepend(result, pgHistory)
                            /\ pgDone' = <<result>> \o pgDone
                /\ pgInputText' = out.value
                /\ status' = "SUCCESS"
                /\ UNCHANGED errorMessage
           ELSE /\ status' = "ERROR"
                /\ errorMessage' = Some(PgErrorText(out.message))
                /\ UNCHANGED <<now, pgInputText, pgHistory, pgDone>>

PgResponseOf(replies) ==
    /\ unit = "TranslationPlayground"
    /\ \E i \in 1..Len(pgInflight) : \E reply \in replies : PgSettle(i, reply)
    /\ UNCHANGED <<settings, pgHotkeys>>
    /\ UNCHANGED <<unit, calls, submits, detours, tt>>
    /\ UNCHANGED appVars

\* a 2000 ms / 5000 ms timer fires: setStatus('READY')
PgResetFires ==
    /\ unit = "TranslationPlayground"
    /\ pgResets > 0
    /\ pgResets' = pgResets - 1
    /\ status' = "READY"
    /\ UNCHANGED <<settings, errorMessage, pgInputText, pgHistory, pgHotkeys,
                   pgInflight, pgDone>>
    /\ UNCHANGED <<unit, calls, now, submits, detours, tt>>
    /\ UNCHANGED appVars

\* the user's steps in a run that does not count detours
PgEdit == PgOnChange /\ UNCHANGED detours
PgSaveApiKey == PgOnUpdateApiKey /\ UNCHANGED detours
PgSetMode == PgOnUpdateMode /\ UNCHANGED detours
PgSimulateHotkey == PgSimulateHotkeyUpTo(MaxEvents) /\ UNCHANGED detours
PgResponse == PgResponseOf(Replies)

PgInit ==
    /\ settings \in [mode : TranslationModes, apiKey : ApiKeys]
    /\ status = "READY"
    /\ errorMessage = None
    /\ pgInputText = PgInitialText
    /\ pgHistory = <<>>
    /\ pgHotkeys = <<>>
    /\ pgInflight = <<>>
    /\ pgResets = 0
    /\ pgDone = <<>>

\* the playground's variables while another unit runs
PgOff ==
    /\ settings = [mode |-> "UZ_RU", apiKey |-> ""]
    /\ status = "READY"
    /\ errorMessage = None
    /\ pgInputText = PgInitialText
    /\ pgHistory = <<>>
    /\ pgHotkeys = <<>>
    /\ pgInflight = <<>>
    /\ pgResets = 0
    /\ pgDone = <<>>

----------------------------------------------------------------------------
(* App.tsx: values *)

\* the number of records the sync effect persists
MaxHistory == 50

Languages == {"RU", "EN"}
Tones == {"natural", "formal", "slang"}

\* a JavaScript value held in `history`: an array of items, or what
\* JSON.parse can return instead (a string of characters, null, a number,
\* an object)
Arr(items)     == [t |-> "array",  items |-> items]
JsString(cs)   == [t |-> "string", items |-> cs]
JsNull         == [t |-> "null",   items |-> <<>>]
JsNumber       == [t |-> "number", items |-> <<>>]
JsObject       == [t |-> "object", items |-> <<>>]

\* one character of a string, as an element of an array
Char(c) == [char |-> c]

\* whether v.slice exists (arrays and strings have it)
HasSlice(v) == v.t \in {"array", "string"}

\* the property names of a TranslationRecord, in creation order
RecordKeys == <<"id", "from", "to", "original", "translated", "tone", "timestamp">>

IsRecord(x) == "id" \in DOMAIN x

\* JSON.stringify of one element: an object becomes its properties in
\* insertion order, a character a one-character string
StringifyItem(x) ==
    IF IsRecord(x)
    THEN [i \in 1..Len(RecordKeys) |-> <<RecordKeys[i], x[RecordKeys[i]]>>]
    ELSE << <<"char", x.char>> >>

\* the value of property k in a serialized object
Property(o, k) == o[CHOOSE i \in 1..Len(o) : o[i][1] = k][2]

\* JSON.parse of one element
ParseItem(o) ==
    IF o[1][1] = "char" THEN Char(o[1][2])
    ELSE [k \in {RecordKeys[i] : i \in 1..Len(RecordKeys)} |-> Property(o, k)]

\* JSON.stringify(v) and JSON.parse of its result
JsonStringify(v) ==
    [kind |-> "json",
     val  |-> [t |-> v.t, items |-> [i \in 1..Len(v.items) |-> StringifyItem(v.items[i])]]]
JsonParse(p) ==
    [t |-> p.val.t, items |-> [i \in 1..Len(p.val.items) |-> ParseItem(p.val.items[i])]]

\* stored texts that are not JSON: JSON.parse throws on Garbage; the empty
\* string is falsy, so it is not even parsed
Garbage     == [kind |-> "garbage", val |-> [t |-> "null", items |-> <<>>]]
EmptyString == [kind |-> "empty",   val |-> [t |-> "null", items |-> <<>>]]

\* v.slice(1, 50): an off-by-one start
SliceHistoryFromOne(v) ==
    [t |-> v.t, items |-> SubSeq(v.items, 2, IF Len(v.items) < MaxHistory
                                              THEN Len(v.items) ELSE MaxHistory)]

\* v.slice(0, 50) of an array or a string
SliceHistory(v) == [t |-> v.t, items |-> Slice(v.items, MaxHistory)]

\* record i (1 is the newest) of a vault of n records written by an earlier
\* session
StoredRecord(n, i) ==
    [id |-> n - i + 1, from |-> "UZ", to |-> "RU", original |-> <<"a">>,
     translated |-> <<"x">>, tone |-> "natural", timestamp |-> 0]
Vault(n) == Arr([i \in 1..n |-> StoredRecord(n, i)])

\* what localStorage can hold under the key when the page loads
StoredPayloads ==
    { None, Some(EmptyString), Some(Garbage),
      Some(JsonStringify(JsNull)), Some(JsonStringify(JsNumber)),
      Some(JsonStringify(JsObject)), Some(JsonStringify(JsString(<<>>))),
      Some(JsonStringify(Vault(0))) }

\* the number of records in a stored payload
StoredCount(st) ==
    IF st # None /\ st[1].kind = "json" /\ st[1].val.t = "array"
    THEN Len(st[1].val.items) ELSE 0

\* a text as the sequence of its words and punctuation marks, white space
\* left out; text.includes(w) for a word w
Includes(text, w) == \E k \in 1..Len(text) : text[k] = w

\* targetLang === 'RU' ? 'Russian' : 'English'
TargetFull(lang) == IF lang = "RU" THEN "Russian" ELSE "English"

\* toneMap[tone]
ToneMap(tn) ==
    CASE tn = "natural" ->
            <<"conversational", ",", "warm", ",", "and", "perfect", "for", "social",
              "apps", "like", "Telegram", ".">>
      [] tn = "formal" ->
            <<"highly", "professional", ",", "respectful", ",", "and", "suitable",
              "for", "formal", "business", "documentation", ".">>
      [] tn = "slang" ->
            <<"urban", ",", "casual", ",", "youth", "-", "oriented", "with",
              "relevant", "slang", "expressions", ".">>

\* the systemInstruction template literal of handleTranslate
SystemInstruction(lang, tn) ==
    <<"Linguistic", "Mode", ":", "Elite", "Translator", ".",
      "Goal", ":", "Translate", "Uzbek", "to">> \o <<TargetFull(lang)>> \o <<".",
      "Tone", ":">> \o ToneMap(tn) \o <<".",
      "Constraint", ":", "Output", "ONLY", "the", "translated", "text", ".",
      "Do", "not", "provide", "meta", "-", "commentary", ",", "quotes", ",", "or",
      "notes", ".">>

EmptyBuffer == <<"E", "m", "p", "t", "y", " ", "b", "u", "f", "f", "e", "r", ".">>

\* response.text || "Empty buffer.": the result without its trim()
ResultOfUntrimmed(reply) ==
    IF reply.kind = "absent" \/ Falsy(reply.text) THEN EmptyBuffer
    ELSE reply.text

\* response.text?.trim() || "Empty buffer."
ResultOf(reply) ==
    IF reply.kind = "absent" \/ Falsy(Trim(reply.text)) THEN EmptyBuffer
    ELSE Trim(reply.text)

\* the template literal `${prefix}${detail}`
Message(prefix, detail) == <<prefix, detail>>

KeyMissingDetails ==
    Message("Neural Core Offline: API_KEY is missing from environment. check Netlify settings.", "")

\* the argument of setErrorDetails in the catch block
CatchDetails(m) ==
    IF m = "API_KEY_MISSING" THEN KeyMissingDetails
    ELSE Message("Linguistic Error: ", m)

\* [record, ...prev]
Prepend(record, prev) == Arr(<<record>> \o prev.items)

\* the button without its isTranslating lock
ExecuteDisabledNoLock == Falsy(Trim(inputText))

\* disabled={isTranslating || !inputText.trim()} of 'Execute Strategy'
ExecuteDisabled == isTranslating \/ Falsy(Trim(inputText))

\* React runs pending effects and renders before it handles the next event
Interactive == ~crashed /\ effects = <<>> /\ queued = None

----------------------------------------------------------------------------
(* App.tsx: operations *)

AppFrame == UNCHANGED <<unit, tt, detours>> /\ UNCHANGED pgVars

\* onChange of the textarea
AppSetInputText ==
    /\ unit = "App" /\ Interactive
    /\ \E t \in InputTexts : t # inputText /\ inputText' = t
    /\ UNCHANGED <<API_KEY, translatedText, isTranslating, targetLang, tone, history,
                   errorDetails, storage, appInflight, appTimers, effects, queued,
                   crashed, uuidSeq, restarts, lastOp, carried>>
    /\ UNCHANGED <<calls, now, submits>> /\ AppFrame

\* the RU / EN buttons
AppSetTargetLang ==
    /\ unit = "App" /\ Interactive
    /\ \E l \in Languages : l # targetLang /\ targetLang' = l
    /\ UNCHANGED <<API_KEY, inputText, translatedText, isTranslating, tone, history,
                   errorDetails, storage, appInflight, appTimers, effects, queued,
                   crashed, uuidSeq, restarts, lastOp, carried>>
    /\ UNCHANGED <<calls, now, submits>> /\ AppFrame

\* the tone buttons
AppSetTone ==
    /\ unit = "App" /\ Interactive
    /\ \E t \in Tones : t # tone /\ tone' = t
    /\ UNCHANGED <<API_KEY, inputText, translatedText, isTranslating, targetLang,
                   history, errorDetails, storage, appInflight, appTimers, effects,
                   queued, crashed, uuidSeq, restarts, lastOp, carried>>
    /\ UNCHANGED <<calls, now, submits>> /\ AppFrame

\* handleTranslate without its setTranslatedText("")
HandleTranslateKeepsText ==
    IF Falsy(Trim(inputText))
    THEN UNCHANGED <<isTranslating, translatedText, errorDetails, appInflight, calls>>
    ELSE /\ UNCHANGED translatedText
         /\ IF API_KEY = ""
            THEN /\ errorDetails' = Some(CatchDetails("API_KEY_MISSING"))
                 /\ isTranslating' = FALSE
                 /\ UNCHANGED <<appInflight, calls>>
            ELSE /\ errorDetails' = None
                 /\ isTranslating' = TRUE
                 /\ appInflight' = Append(appInflight,
                        [text |-> inputText, to |-> targetLang, tone |-> tone,
                         systemInstruction |-> SystemInstruction(targetLang, tone),
                         before |-> [history |-> history, storage |-> storage]])
                 /\ calls' = calls + 1

\* the catch block of handleTranslate without its setIsTranslating(false)
HandleTranslateStuck ==
    IF Falsy(Trim(inputText))
    THEN UNCHANGED <<isTranslating, translatedText, errorDetails, appInflight, calls>>
    ELSE /\ translatedText' = <<>>
         /\ isTranslating' = TRUE
         /\ IF API_KEY = ""
            THEN /\ errorDetails' = Some(CatchDetails("API_KEY_MISSING"))
                 /\ UNCHANGED <<appInflight, calls>>
            ELSE /\ errorDetails' = None
                 /\ appInflight' = Append(appInflight,
                        [text |-> inputText, to |-> targetLang, tone |-> tone,
                         systemInstruction |-> SystemInstruction(targetLang, tone),
                         before |-> [history |-> history, storage |-> storage]])
                 /\ calls' = calls + 1

\* handleTranslate up to its await
HandleTranslate ==
    IF Falsy(Trim(inputText))
    THEN UNCHANGED <<isTranslating, translatedText, errorDetails, appInflight, calls>>
    ELSE /\ translatedText' = <<>>
         /\ IF API_KEY = ""
            THEN \* throw new Error("API_KEY_MISSING"): the catch block runs
                 /\ errorDetails' = Some(CatchDetails("API_KEY_MISSING"))
                 /\ isTranslating' = FALSE
                 /\ UNCHANGED <<appInflight, calls>>
            ELSE /\ errorDetails' = None
                 /\ isTranslating' = TRUE
                 /\ appInflight' = Append(appInflight,
                        [text |-> inputText, to |-> targetLang, tone |-> tone,
                         systemInstruction |-> SystemInstruction(targetLang, tone),
                         before |-> [history |-> history, storage |-> storage]])
                 /\ calls' = calls + 1

\* a click on 'Execute Strategy'
AppExecuteUpTo(max) ==
    /\ unit = "App" /\ Interactive
    /\ ~ExecuteDisabled
    /\ submits + restarts < max
    /\ submits' = submits + 1
    /\ HandleTranslate
    /\ UNCHANGED <<API_KEY, inputText, targetLang, tone, history, storage, appTimers,
                   effects, queued, crashed, uuidSeq, restarts, lastOp, carried>>
    /\ UNCHANGED now /\ AppFrame

\* handleTranslate after its await, the catch block without its
\* setIsTranslating(false)
AppSettleStuck(i, reply) ==
    /\ appInflight' = RemoveAt(appInflight, i)
    /\ IF reply.kind = "error"
       THEN /\ errorDetails' = Some(CatchDetails(reply.message))
            /\ UNCHANGED <<appTimers, isTranslating>>
       ELSE /\ appTimers' = Append(appTimers,
                   [result |-> ResultOf(reply), text |-> appInflight[i].text,
                    to |-> appInflight[i].to, tone |-> appInflight[i].tone])
            /\ UNCHANGED <<errorDetails, isTranslating>>

\* handleTranslate after its await, reading text, language and tone from the
\* current render instead of the one that sent the request
AppSettleCurrent(i, reply) ==
    /\ appInflight' = RemoveAt(appInflight, i)
    /\ IF reply.kind = "error"
       THEN /\ errorDetails' = Some(CatchDetails(reply.message))
            /\ isTranslating' = FALSE
            /\ UNCHANGED appTimers
       ELSE /\ appTimers' = Append(appTimers,
                   [result |-> ResultOf(reply), text |-> inputText,
                    to |-> targetLang, tone |-> tone])
            /\ UNCHANGED <<errorDetails, isTranslating>>

\* handleTranslate after its await: call i settles for `reply`
AppSettle(i, reply) ==
    /\ appInflight' = RemoveAt(appInflight, i)
    /\ IF reply.kind = "error"
       THEN /\ errorDetails' = Some(CatchDetails(reply.message))
            /\ isTranslating' = FALSE
            /\ UNCHANGED appTimers
       ELSE /\ appTimers' = Append(appTimers,
                   [result |-> ResultOf(reply), text |-> appInflight[i].text,
                    to |-> appInflight[i].to, tone |-> appInflight[i].tone])
            /\ UNCHANGED <<errorDetails, isTranslating>>

AppResponse ==
    /\ unit = "App" /\ Interactive
    /\ \E i \in 1..Len(appInflight) : \E reply \in Replies : AppSettle(i, reply)
    /\ UNCHANGED <<API_KEY, inputText, translatedText, targetLang, tone, history,
                   storage, effects, queued, crashed, uuidSeq, restarts, lastOp,
                   carried>>
    /\ UNCHANGED <<calls, now, submits>> /\ AppFrame

\* the 600 ms timer fires: the result is shown and recorded; the commit
\* that follows schedules the sync effect
AppTimerFires ==
    /\ unit = "App" /\ Interactive
    /\ appTimers # <<>>
    /\ LET t == Head(appTimers)
       IN  \E ts \in ClockReads :
             LET record == [id |-> uuidSeq + 1, from |-> "UZ", to |-> t.to,
                            original |-> t.text, translated |-> t.result,
                            tone |-> t.tone, timestamp |-> ts]
             IN  /\ now' = ts
                 /\ translatedText' = t.result
                 /\ history' = Prepend(record, history)
    /\ lastOp' = "add"
    /\ carried' = None
    /\ uuidSeq' = uuidSeq + 1
    /\ isTranslating' = FALSE
    /\ appTimers' = Tail(appTimers)
    /\ effects' = <<"sync">>
    /\ UNCHANGED <<API_KEY, inputText, targetLang, tone, errorDetails, storage,
                   appInflight, queued, crashed, restarts>>
    /\ UNCHANGED <<calls, submits>> /\ AppFrame

\* 'Purge Archive', confirmed: setHistory([]) and removeItem; the commit
\* that follows schedules the sync effect
AppPurge ==
    /\ unit = "App" /\ Interactive
    /\ history' = Arr(<<>>)
    /\ storage' = None
    /\ effects' = <<"sync">>
    /\ lastOp' = "purge"
    /\ carried' = None
    /\ UNCHANGED <<API_KEY, inputText, translatedText, isTranslating, targetLang, tone,
                   errorDetails, appInflight, appTimers, queued, crashed, uuidSeq,
                   restarts>>
    /\ UNCHANGED <<calls, now, submits>> /\ AppFrame

\* the restore effect: what it passes to setHistory, if anything
Restored(saved) ==
    IF saved = None \/ saved[1].kind = "empty" THEN None
    ELSE IF saved[1].kind = "garbage" THEN None
    ELSE Some(JsonParse(saved[1]))

AppRestoreEffect ==
    /\ unit = "App" /\ ~crashed
    /\ effects # <<>> /\ Head(effects) = "restore"
    /\ effects' = Tail(effects)
    /\ queued' = Restored(storage)
    /\ UNCHANGED <<API_KEY, inputText, translatedText, isTranslating, targetLang, tone,
                   history, errorDetails, storage, appInflight, appTimers, crashed,
                   uuidSeq, restarts, lastOp, carried>>
    /\ UNCHANGED <<calls, now, submits>> /\ AppFrame

\* the sync effect: setItem(JSON.stringify(history.slice(0, 50))); a value
\* without slice makes it throw, and React unmounts the tree
AppSyncEffect ==
    /\ unit = "App" /\ ~crashed
    /\ effects # <<>> /\ Head(effects) = "sync"
    /\ IF HasSlice(history)
       THEN /\ storage' = Some(JsonStringify(SliceHistory(history)))
            /\ effects' = Tail(effects)
            /\ UNCHANGED crashed
       ELSE /\ crashed' = TRUE
            /\ effects' = <<>>
            /\ UNCHANGED storage
    /\ UNCHANGED <<API_KEY, inputText, translatedText, isTranslating, targetLang, tone,
                   history, errorDetails, appInflight, appTimers, queued, uuidSeq,
                   restarts, lastOp, carried>>
    /\ UNCHANGED <<calls, now, submits>> /\ AppFrame

\* the render that applies the restore effect's setHistory
AppRerender ==
    /\ unit = "App" /\ ~crashed
    /\ effects = <<>> /\ queued # None
    /\ history' = queued[1]
    /\ queued' = None
    /\ effects' = <<"sync">>
    /\ UNCHANGED <<API_KEY, inputText, translatedText, isTranslating, targetLang, tone,
                   errorDetails, storage, appInflight, appTimers, crashed, uuidSeq,
                   restarts, lastOp, carried>>
    /\ UNCHANGED <<calls, now, submits>> /\ AppFrame

\* the state of a freshly mounted App: the useState initial values, both
\* effects of the first commit pending
Mounted ==
    /\ inputText = <<>>
    /\ translatedText = <<>>
    /\ isTranslating = FALSE
    /\ targetLang = "RU"
    /\ tone = "natural"
    /\ history = Arr(<<>>)
    /\ errorDetails = None
    /\ appInflight = <<>>
    /\ appTimers = <<>>
    /\ effects = <<"restore", "sync">>
    /\ queued = None
    /\ crashed = FALSE

\* the page is reloaded: localStorage survives, everything else starts over
AppReloadUpTo(max) ==
    /\ unit = "App"
    /\ Interactive \/ crashed
    /\ submits + restarts < max
    /\ restarts' = restarts + 1
    /\ inputText' = <<>>
    /\ translatedText' = <<>>
    /\ isTranslating' = FALSE
    /\ targetLang' = "RU"
    /\ tone' = "natural"
    /\ history' = Arr(<<>>)
    /\ errorDetails' = None
    /\ appInflight' = <<>>
    /\ appTimers' = <<>>
    /\ effects' = <<"restore", "sync">>
    /\ queued' = None
    /\ crashed' = FALSE
    /\ carried' = IF lastOp = "add" /\ ~crashed THEN Some(history.items[1]) ELSE None
    /\ lastOp' = "mount"
    /\ UNCHANGED <<API_KEY, storage, uuidSeq>>
    /\ UNCHANGED <<calls, now, submits>> /\ AppFrame

AppExecute == AppExecuteUpTo(MaxEvents)
AppReload == AppReloadUpTo(MaxEvents)

AppInitWith(payloads) ==
    /\ API_KEY \in ApiKeys
    /\ storage \in payloads
    /\ uuidSeq = StoredCount(storage)
    /\ restarts = 0
    /\ lastOp = "mount"
    /\ carried = None
    /\ Mounted

\* App's variables while another unit runs
AppOff ==
    /\ API_KEY = ""
    /\ storage = None
    /\ uuidSeq = 0
    /\ restarts = 0
    /\ lastOp = "mount"
    /\ carried = None
    /\ Mounted

----------------------------------------------------------------------------
(* Specifications *)

vars == <<unit, calls, now, submits, detours, tt, settings, status, errorMessage,
          pgInputText, pgHistory, pgHotkeys, pgInflight, pgResets, pgDone,
          API_KEY, inputText, translatedText, isTranslating, targetLang, tone,
          history, errorDetails, storage, appInflight, appTimers, effects,
          queued, crashed, uuidSeq, restarts, lastOp, carried>>

InitService ==
    /\ unit = "geminiService"
    /\ calls = 0 /\ now = 0 /\ submits = 0 /\ detours = 0
    /\ tt \in [pc : {"start"}, text : InputTexts, mode : TranslationModes,
                apiKey : ApiKeys, out : {Rejected("")}]
    /\ PgOff
    /\ AppOff

InitPlayground ==
    /\ unit = "TranslationPlayground"
    /\ calls = 0 /\ now = 0 /\ submits = 0 /\ detours = 0
    /\ tt = TtIdle
    /\ PgInit
    /\ AppOff

InitApp ==
    /\ unit = "App"
    /\ calls = 0 /\ now = 0 /\ submits = 0 /\ detours = 0
    /\ tt = TtIdle
    /\ PgOff
    /\ AppInitWith(StoredPayloads)

Init == InitService \/ InitPlayground \/ InitApp

Next ==
    \/ TtCall
    \/ TtSettle
    \/ PgEdit
    \/ PgSaveApiKey
    \/ PgSetMode
    \/ PgSimulateHotkey
    \/ PgHotkeyFires
    \/ PgResponse
    \/ PgResetFires
    \/ AppSetInputText
    \/ AppSetTargetLang
    \/ AppSetTone
    \/ AppExecute
    \/ AppResponse
    \/ AppTimerFires
    \/ AppPurge
    \/ AppRestoreEffect
    \/ AppSyncEffect
    \/ AppRerender
    \/ AppReload

Spec == Init /\ [][Next]_vars


\* The playground run to its history cap: enough submits to fill the
\* history and evict from it. What widens a run beyond one request after
\* another is counted: typing, a settings change, and a click made while an
\* earlier request is still scheduled or in flight
PgDetour == detours < MaxCapDetours /\ detours' = detours + 1

PgEditCap == PgDetour /\ PgOnChange
PgSaveApiKeyCap == PgDetour /\ PgOnUpdateApiKey
PgSetModeCap == PgDetour /\ PgOnUpdateMode

PgSimulateHotkeyCap ==
    /\ IF pgHotkeys # <<>> \/ pgInflight # <<>> THEN PgDetour ELSE UNCHANGED detours
    /\ PgSimulateHotkeyUpTo(MaxCapSubmits)

NextCap ==
    \/ PgEditCap
    \/ PgSaveApiKeyCap
    \/ PgSetModeCap
    \/ PgSimulateHotkeyCap
    \/ PgHotkeyFires
    \/ PgResponse
    \/ PgResetFires

SpecCap == InitPlayground /\ [][NextCap]_vars

\* App loaded over a vault that an earlier session filled to its cap
InitVault ==
    /\ unit = "App"
    /\ calls = 0 /\ now = 0 /\ submits = 0 /\ detours = 0
    /\ tt = TtIdle
    /\ PgOff
    /\ AppInitWith({Some(JsonStringify(Vault(MaxHistory)))})

NextVault ==
    \/ AppSetInputText
    \/ AppSetTargetLang
    \/ AppSetTone
    \/ AppExecute
    \/ AppResponse
    \/ AppTimerFires
    \/ AppPurge
    \/ AppRestoreEffect
    \/ AppSyncEffect
    \/ AppRerender
    \/ AppReload

SpecVault == InitVault /\ [][NextVault]_vars

\* The playground with its timers: a timer that setTimeout has scheduled
\* fires after its delay, so neither the 500 ms hotkey timer nor a
\* 2000 ms / 5000 ms status timer stays pending for ever
NextTimers ==
    \/ PgEdit
    \/ PgSaveApiKey
    \/ PgSetMode
    \/ PgSimulateHotkey
    \/ PgHotkeyFires
    \/ PgResponse
    \/ PgResetFires

SpecTimers ==
    /\ InitPlayground
    /\ [][NextTimers]_vars
    /\ WF_vars(PgHotkeyFires)
    /\ WF_vars(PgResetFires)

\* App with a service that answers and timers that fire: the response
\* callback and the 600 ms timer are tasks of the event loop, which runs them
\* however often other events make React render and run effects first;
\* pending effects and renders are always run
AppExecuteOutcome == AppExecuteUpTo(MaxOutcomeEvents)
AppReloadOutcome == AppReloadUpTo(MaxOutcomeEvents)

NextOutcome ==
    \/ AppSetInputText
    \/ AppSetTargetLang
    \/ AppSetTone
    \/ AppExecuteOutcome
    \/ AppResponse
    \/ AppTimerFires
    \/ AppPurge
    \/ AppRestoreEffect
    \/ AppSyncEffect
    \/ AppRerender
    \/ AppReloadOutcome

SpecOutcome ==
    /\ InitApp
    /\ [][NextOutcome]_vars
    /\ SF_vars(AppResponse)
    /\ SF_vars(AppTimerFires)
    /\ WF_vars(AppRestoreEffect)
    /\ WF_vars(AppSyncEffect)
    /\ WF_vars(AppRerender)

----------------------------------------------------------------------------
(* Claims *)

\* C1: in TranslationPlayground at most one translateText call is in flight
\* at any time.
C1_AtMostOneInFlight == Len(pgInflight) <= 1

\* C2: in App at most one generateContent call is outstanding and at most
\* one 600 ms result timer is pending, never both, and isTranslating is true
\* for as long as either is.
C2_SingleFlight ==
    /\ Len(appInflight) + Len(appTimers) <= 1
    /\ Len(appInflight) + Len(appTimers) = 1 => isTranslating

\* a second request is in flight after the first one has completed
C2_Witness == unit = "App" /\ Len(appInflight) = 1 /\ submits = 2

\* C3: in App the in-memory history never holds more than 50 records.
C3_HistoryCapped == Len(history.items) <= MaxHistory

\* C4: in App, whenever no state update or effect is pending, the stored
\* array equals the in-memory history record for record.
C4_StorageInSync ==
    (unit = "App" /\ Interactive)
        => storage # None /\ storage[1].kind = "json" /\ JsonParse(storage[1]) = history

\* the history is the five newest successful results
C5_Inv == pgHistory = Slice(pgDone, PgHistoryCap)

\* a success puts its record first; on a full history the length stays 5,
\* the other four shift by one and the position of the last record is gone
\* (a result has no identifier: two results of the same text in the same
\* millisecond are equal records, so removal is a matter of position)
C5_Step ==
    pgDone' # pgDone =>
        /\ pgHistory'[1] = pgDone'[1]
        /\ Len(pgHistory) = PgHistoryCap =>
              /\ Len(pgHistory') = PgHistoryCap
              /\ \A i \in 1..(PgHistoryCap - 1) : pgHistory'[i + 1] = pgHistory[i]
              /\ pgHistory' = <<pgDone'[1]>> \o SubSeq(pgHistory, 1, PgHistoryCap - 1)

\* C5: in TranslationPlayground the history is the last min(k, 5) successful
\* results, newest first; a success on a full history keeps the length at 5,
\* puts the new record first, drops the last one and shifts the other four.
C5_LastFive == []C5_Inv /\ [][C5_Step]_vars

\* a result has been evicted from a full history that holds the result of a
\* text typed between two submits
C5_Witness ==
    /\ Len(pgDone) > PgHistoryCap /\ Len(pgHistory) = PgHistoryCap
    /\ \E i \in 1..Len(pgHistory) : pgHistory[i].original = <<"a">>

\* C6: in App loading the history never raises, and what it loads is always
\* an array (the empty one when the stored payload is not an array).
C6_LoadFailsSoft ==
    /\ ~crashed
    /\ queued # None => queued[1].t = "array"
    /\ history.t = "array"

\* C7: in App, once a reload after a successful translation has settled, the
\* first record of the history equals the record that translation added.
C7_RoundTrip ==
    (unit = "App" /\ Interactive /\ carried # None)
        => /\ history.t = "array"
           /\ Len(history.items) >= 1
           /\ history.items[1] = carried[1]

\* a reload after a successful translation has settled
C7_Witness == unit = "App" /\ Interactive /\ carried # None /\ restarts = 1

\* C8: in App, once a confirmed purge has settled, the history is empty and
\* localStorage has no entry under the key.
C8_PurgeRemoves ==
    (unit = "App" /\ Interactive /\ lastOp = "purge")
        => history = Arr(<<>>) /\ storage = None

\* C9: with an empty credential no call of generateContent is made and the
\* translation fails: translateText rejects, App.handleTranslate ends in its
\* catch block.
C9_NoCallWithoutKey ==
    /\ (unit = "geminiService" /\ tt.apiKey = "")
          => /\ calls = 0
             /\ tt.pc \in {"start", "settled"}
             /\ tt.pc = "settled" => ~tt.out.ok
    /\ (unit = "App" /\ API_KEY = "")
          => /\ calls = 0
             /\ appInflight = <<>> /\ appTimers = <<>>
             /\ ~isTranslating
             /\ (submits > 0 /\ restarts = 0) => errorDetails # None

\* translateText has been called with the empty key and has settled
C9_Witness == unit = "geminiService" /\ tt.apiKey = "" /\ tt.pc = "settled"

\* C10: translateText never resolves to the empty string.
C10_NeverResolvesEmpty ==
    (unit = "geminiService" /\ tt.pc = "settled" /\ tt.out.ok) => ~Falsy(tt.out.value)

\* C11: in App a response whose text is absent or empty after trimming is
\* a failure: its placeholder result is never displayed, never scheduled for
\* display and never recorded in the history.
C11_EmptyIsFailure ==
    unit = "App" =>
        /\ translatedText # EmptyBuffer
        /\ \A i \in 1..Len(appTimers) : appTimers[i].result # EmptyBuffer
        /\ \A i \in 1..Len(history.items) :
              IsRecord(history.items[i]) => history.items[i].translated # EmptyBuffer

\* handleTranslate of the playground runs with a text of white space only
C12_PgBlankSubmit ==
    /\ unit = "TranslationPlayground"
    /\ pgHotkeys # <<>> /\ pgHotkeys' = Tail(pgHotkeys)
    /\ \A k \in 1..Len(Head(pgHotkeys).text) : IsSpace(Head(pgHotkeys).text[k])

\* the textbox of App holds white space only
C12_AppBlank == unit = "App" /\ \A k \in 1..Len(inputText) : IsSpace(inputText[k])

C12_Step ==
    /\ C12_PgBlankSubmit =>
          UNCHANGED <<status, pgHistory, pgDone, pgInputText, errorMessage,
                      pgInflight, pgResets, calls>>
    /\ C12_AppBlank =>
          /\ submits' = submits /\ calls' = calls
          /\ appInflight' = appInflight \/ appInflight' = <<>>
          /\ isTranslating' => isTranslating

\* C12: a submit whose text is empty or only white space has no effect. In
\* TranslationPlayground the step that runs handleTranslate with such a text
\* leaves status, history, textbox, error message and the number of service
\* calls unchanged; in App no step taken while the textbox holds such a text
\* is an accepted submit, starts a service call or sets isTranslating.
C12_BlankRejected == [][C12_Step]_vars

\* the playground has run handleTranslate with a blank text and nothing
\* else: no call was made and nothing is displayed
C12_Witness ==
    /\ unit = "TranslationPlayground"
    /\ submits >= 1 /\ pgHotkeys = <<>> /\ calls = 0
    /\ Falsy(Trim(pgInputText))
    /\ status = "READY" /\ errorMessage = None /\ pgHistory = <<>>

\* as long as every submit of the playground was rejected (no call was
\* made), it stays READY with nothing in flight and shows at most the
\* missing-key notice; App without a credential never renders
\* isTranslating = true, displays no translation and shows at most the
\* missing-key details
C13_Inv ==
    /\ (unit = "TranslationPlayground" /\ calls = 0)
          => /\ status = "READY"
             /\ pgInflight = <<>> /\ pgResets = 0
             /\ errorMessage \in {None, Some(MissingKeyNotice)}
    /\ (unit = "App" /\ API_KEY = "")
          => /\ ~isTranslating
             /\ translatedText = <<>>
             /\ errorDetails \in {None, Some(KeyMissingDetails)}

\* the submit of a non-blank text without a credential (in the playground:
\* in the settings of the click) surfaces the message and changes nothing
\* else
C13_Step ==
    /\ ( /\ unit = "TranslationPlayground"
         /\ pgHotkeys # <<>> /\ pgHotkeys' = Tail(pgHotkeys)
         /\ Head(pgHotkeys).settings.apiKey = ""
         /\ ~Falsy(Trim(Head(pgHotkeys).text)) )
          => /\ errorMessage' = Some(MissingKeyNotice)
             /\ UNCHANGED <<status, pgHistory, pgInputText, pgInflight, pgResets, calls>>
    /\ (unit = "App" /\ API_KEY = "" /\ submits' # submits)
          => /\ errorDetails' = Some(KeyMissingDetails)
             /\ UNCHANGED <<isTranslating, history, storage, calls>>

\* C13: a submit of a non-empty text without a credential is rejected without
\* ever entering the translating state, in both components: the playground's
\* status never becomes TRANSLATING, App's isTranslating never becomes true,
\* and only a message is surfaced.
C13_NoKeyNeverTranslating == []C13_Inv /\ [][C13_Step]_vars

\* without a credential a submit of a non-blank text has been handled, in
\* the playground or in App
C13_Witness ==
    \/ /\ unit = "TranslationPlayground" /\ calls = 0
       /\ submits > 0 /\ pgHotkeys = <<>> /\ errorMessage = Some(MissingKeyNotice)
    \/ /\ unit = "App" /\ API_KEY = "" /\ submits > 0
       /\ errorDetails = Some(KeyMissingDetails)

\* handleTranslate of the playground runs with a non-blank text and no key
C14_NoKeySubmit ==
    /\ unit = "TranslationPlayground"
    /\ pgHotkeys # <<>> /\ pgHotkeys' = Tail(pgHotkeys)
    /\ Head(pgHotkeys).settings.apiKey = ""
    /\ ~Falsy(Trim(Head(pgHotkeys).text))

C14_Step ==
    C14_NoKeySubmit =>
        /\ status' = "ERROR"
        /\ errorMessage' = Some(MissingKeyNotice)
        /\ pgHistory' = pgHistory

\* C14: in TranslationPlayground a submit of a non-empty text without a
\* credential puts the component in status ERROR with the missing-credential
\* message and leaves the history unchanged.
C14_NoKeyIsError == [][C14_Step]_vars

\* the step in which request i of the playground settles for a rejected
\* service call
C15_PgFailure(i) ==
    /\ unit = "TranslationPlayground"
    /\ \E m \in ErrMessages : PgSettle(i, ErrorReply(m))

\* the step in which request i of App settles for a rejected service call
C15_AppFailure(i) ==
    /\ unit = "App" /\ restarts' = restarts
    /\ \E m \in ErrMessages : AppSettle(i, ErrorReply(m))

\* `after` is `before` with k newer records put in front and the length
\* cut to the cap: below its k newest records it is `before`, or the start
\* of `before` when the cap has cut it
C15_NewerInFront(before, after) ==
    \E k \in 0..Len(after) :
        /\ SubSeq(after, k + 1, Len(after)) = Slice(before, Len(after) - k)
        /\ Len(after) < PgHistoryCap => Len(after) = k + Len(before)

\* nothing, or a purge whose sync effect has run, has happened since `before`
C15_AsBeforeOrPurged(before) ==
    \/ history' = before.history /\ storage' = before.storage
    \/ history' = Arr(<<>>) /\ storage' = Some(JsonStringify(Arr(<<>>)))

\* the failure when it is handled is compared with the state its submit found
C15_OriginalStep ==
    /\ \A i \in 1..Len(pgInflight) :
          C15_PgFailure(i) =>
              /\ pgHistory' = pgInflight[i].before
              /\ status' = "ERROR" /\ errorMessage' # None
    /\ \A i \in 1..Len(appInflight) :
          C15_AppFailure(i) =>
              /\ history' = appInflight[i].before.history
              /\ storage' = appInflight[i].before.storage
              /\ errorDetails' # None

\* C15 as stated: when the service call rejects, the history (in App also
\* the stored snapshot) after the failure is handled is identical to what it
\* was before the submit, and the error is set.
C15_Original == [][C15_OriginalStep]_vars

C15_Step ==
    /\ \A i \in 1..Len(pgInflight) :
          C15_PgFailure(i) =>
              /\ pgHistory' = pgHistory
              /\ C15_NewerInFront(pgInflight[i].before, pgHistory')
              /\ status' = "ERROR" /\ errorMessage' # None
    /\ \A i \in 1..Len(appInflight) :
          C15_AppFailure(i) =>
              /\ history' = history /\ storage' = storage
              /\ effects' = <<>> /\ appTimers' = appTimers
              /\ C15_AsBeforeOrPurged(appInflight[i].before)
              /\ errorDetails' # None /\ ~isTranslating'

\* C15: handling a failed translation never mutates the history. In both
\* components the step that handles a rejected service call leaves the
\* in-memory history (in App also the stored snapshot, with no write
\* pending) as it was and sets the error status or message; against the
\* state its submit found, the history differs only by what happened in
\* between: records of other requests put in front (playground) or a purge
\* (App).
C15_FailureKeepsHistory == [][C15_Step]_vars

\* a failure has been handled while the history held an earlier result
C15_Witness ==
    \/ /\ unit = "TranslationPlayground" /\ status = "ERROR"
       /\ errorMessage = Some("503 Service Unavailable")
       /\ Len(pgHistory) = 1 /\ pgInflight = <<>>
    \/ /\ unit = "App" /\ Interactive /\ restarts = 0
       /\ errorDetails = Some(Message("Linguistic Error: ", "503 Service Unavailable"))
       /\ Len(history.items) = 1 /\ submits = 2
       /\ storage = Some(JsonStringify(history))

\* a request of the playground for text t settles for a response s that is
\* not blank: the textbox shows trim(s), the new record is first, the older
\* ones follow, and the history is one longer unless it was full
C16_PgStep ==
    \A i \in 1..Len(pgInflight) : \A s \in ReplyTexts :
        ( /\ unit = "TranslationPlayground"
          /\ ~Falsy(Trim(s))
          /\ PgSettle(i, TextReply(s)) )
        => /\ pgInputText' = Trim(s)
           /\ pgHistory'[1].original = pgInflight[i].text
           /\ pgHistory'[1].translated = Trim(s)
           /\ Len(pgHistory) < PgHistoryCap =>
                 /\ Len(pgHistory') = Len(pgHistory) + 1
                 /\ Tail(pgHistory') = pgHistory
           /\ status' = "SUCCESS"

\* a request of App for text t settles for a response s that is not blank:
\* trim(s) is scheduled for display together with t
C16_AppSettleStep ==
    \A i \in 1..Len(appInflight) : \A s \in ReplyTexts :
        ( /\ unit = "App" /\ restarts' = restarts
          /\ ~Falsy(Trim(s))
          /\ AppSettle(i, TextReply(s)) )
        => /\ Len(appTimers') = Len(appTimers) + 1
           /\ appTimers'[Len(appTimers')].result = Trim(s)
           /\ appTimers'[Len(appTimers')].text = appInflight[i].text

\* the 600 ms timer of App fires: the result is displayed, its record is
\* first and the history is one longer
C16_AppTimerStep ==
    ( /\ unit = "App" /\ restarts' = restarts
      /\ appTimers # <<>> /\ appTimers' = Tail(appTimers) )
    => /\ translatedText' = Head(appTimers).result
       /\ history'.items[1].original = Head(appTimers).text
       /\ history'.items[1].translated = Head(appTimers).result
       /\ Len(history'.items) = Len(history.items) + 1
       /\ Tail(history'.items) = history.items
       /\ errorDetails' = errorDetails

\* C16: a successful translation of text t whose response s is non-empty
\* after trimming displays trim(s) (translatedText in App, the textbox in
\* TranslationPlayground) and puts first in the history a new record with
\* original = t and translated = trim(s); the history grows by one unless it
\* is at its cap.
C16_SuccessRecorded == [][C16_PgStep /\ C16_AppSettleStep /\ C16_AppTimerStep]_vars

\* a successful translation has been displayed and recorded
C16_Witness ==
    \/ /\ unit = "TranslationPlayground"
       /\ pgInputText = <<"x">> /\ Len(pgHistory) = 2
       /\ pgHistory[1].original = <<"a">> /\ pgHistory[1].translated = <<"x">>
    \/ /\ unit = "App" /\ Interactive
       /\ translatedText = <<"x">> /\ Len(history.items) = 2
       /\ history.items[1].original = <<"a">> /\ history.items[1].translated = <<"x">>

\* C17: in TranslationPlayground, if scheduled timers eventually fire, every
\* state with status ERROR or SUCCESS is eventually followed by a state with
\* status READY (the 5000 ms or 2000 ms timer) or TRANSLATING (a new submit).
C17_ReturnsToReady ==
    (unit = "TranslationPlayground" /\ status \in {"ERROR", "SUCCESS"})
        ~> (status \in {"READY", "TRANSLATING"})

\* a success and a failure have been handled and the status timers have
\* returned the playground to READY
C17_Witness ==
    /\ unit = "TranslationPlayground"
    /\ status = "READY" /\ pgResets = 0 /\ pgInflight = <<>>
    /\ Len(pgDone) = 1 /\ errorMessage = Some("503 Service Unavailable")

\* the calls of generateContent never outnumber the accepted submits (in the
\* playground: those whose 500 ms timer has fired); one call of translateText
\* makes at most one
C18_Inv ==
    /\ unit = "TranslationPlayground" => calls + Len(pgHotkeys) <= submits
    /\ unit = "App" => calls <= submits
    /\ unit = "geminiService" => calls <= 1

\* a call of generateContent is made only by the step that handles a submit,
\* and that step makes one call
C18_Step ==
    calls' # calls =>
        /\ calls' = calls + 1
        /\ unit = "App" => submits' = submits + 1
        /\ unit = "TranslationPlayground" =>
              pgHotkeys # <<>> /\ pgHotkeys' = Tail(pgHotkeys)
        /\ unit = "geminiService" => tt.pc = "start"

\* C18: no retries. Every accepted submit causes at most one call of the
\* external service, a failed call is followed by another call only when the
\* user submits again, and the number of generateContent calls never exceeds
\* the number of accepted submits.
C18_NoRetries == []C18_Inv /\ [][C18_Step]_vars

\* a call has failed and has been reported, and no other call was made
C18_Witness ==
    \/ /\ unit = "App" /\ Interactive /\ submits = 1 /\ calls = 1
       /\ appInflight = <<>> /\ appTimers = <<>>
       /\ errorDetails = Some(Message("Linguistic Error: ", "503 Service Unavailable"))
    \/ /\ unit = "TranslationPlayground" /\ submits = 1 /\ calls = 1
       /\ pgInflight = <<>> /\ status = "READY" /\ pgResets = 0
       /\ errorMessage = Some("503 Service Unavailable")

\* the message displayed for a rejected service call is the one that any
\* other rejected call would display
C19_Step ==
    /\ \A i \in 1..Len(pgInflight) : \A m1, m2 \in ErrMessages :
          (unit = "TranslationPlayground" /\ PgSettle(i, ErrorReply(m1)))
              => errorMessage' =
                     Some(PgErrorText(TranslateTextSettle(ErrorReply(m2)).message))
    /\ \A i \in 1..Len(appInflight) : \A m1, m2 \in ErrMessages \ {"API_KEY_MISSING"} :
          (unit = "App" /\ restarts' = restarts /\ AppSettle(i, ErrorReply(m1)))
              => errorDetails' = Some(CatchDetails(m2))

\* C19: the user-facing message for a service failure is stable and generic:
\* two service failures with different underlying error messages display the
\* same message (errorDetails in App, the value given to setErrorMessage in
\* TranslationPlayground).
C19_GenericFailureMessage == [][C19_Step]_vars

\* C20: in App the missing-credential message is displayed only when the
\* credential was absent at submit time (no service failure, whatever its
\* message, produces it), and a submit without a credential displays it.
C20_MissingKeyDistinct ==
    unit = "App" =>
        /\ errorDetails = Some(KeyMissingDetails) => API_KEY = ""
        /\ (API_KEY = "" /\ submits > 0 /\ restarts = 0)
              => errorDetails = Some(KeyMissingDetails)

\* C21: for every target language and tone, the system instruction that
\* App.handleTranslate sends names the resolved target language ('Russian'
\* for RU, 'English' for EN) and does not contain the selected raw tone token
\* ('natural', 'formal' or 'slang'), only its mapped phrase.
C21_InstructionHidesTone ==
    \A i \in 1..Len(appInflight) :
        /\ Includes(appInflight[i].systemInstruction,
                    IF appInflight[i].to = "RU" THEN "Russian" ELSE "English")
        /\ ~Includes(appInflight[i].systemInstruction, appInflight[i].tone)

\* the step is part of a page load: the reload itself, or the render of the
\* history that the restore effect read from localStorage
C22_Loading == restarts' # restarts \/ queued # None

\* the history gains one record at index 0, produced by a translation that
\* succeeded (a non-empty response), the other records keeping their fields
\* and their order
C22_Gain ==
    /\ appTimers # <<>>
    /\ Head(appTimers).result # EmptyBuffer
    /\ Len(history'.items) = Len(history.items) + 1
    /\ Tail(history'.items) = history.items
    /\ IsRecord(history'.items[1])
    /\ history'.items[1].translated = Head(appTimers).result
    /\ history'.items[1].original = Head(appTimers).text

C22_Step ==
    (unit = "App" /\ ~C22_Loading /\ history' # history)
        => (C22_Gain \/ history' = Arr(<<>>))

\* C22: in App history records are created only by a successful translation,
\* are never mutated and leave the log only through purge: once the page has
\* loaded, every step leaves the history unchanged, adds exactly one new
\* record at index 0 as the result of a successful translation (the retained
\* records keeping their field values and relative positions), or empties it.
C22_RecordsImmutable == [][C22_Step]_vars

\* the transitions of the documented state machine
C23_Transitions ==
    { <<"READY", "TRANSLATING">>, <<"TRANSLATING", "SUCCESS">>,
      <<"TRANSLATING", "ERROR">>, <<"SUCCESS", "READY">>, <<"ERROR", "READY">>,
      <<"SUCCESS", "TRANSLATING">>, <<"ERROR", "TRANSLATING">> }

C23_Step ==
    (unit = "TranslationPlayground" /\ status' # status)
        => <<status, status'>> \in C23_Transitions

\* C23: in TranslationPlayground every change of status is a transition of
\* the documented state machine (READY->TRANSLATING, TRANSLATING->SUCCESS,
\* TRANSLATING->ERROR, SUCCESS->READY, ERROR->READY, SUCCESS/ERROR->
\* TRANSLATING); status never goes from TRANSLATING to READY, from SUCCESS to
\* ERROR or from ERROR to SUCCESS.
C23_DocumentedTransitions == [][C23_Step]_vars

\* C24: in TranslationPlayground, whenever a translateText call is
\* outstanding, status is TRANSLATING (the 'Simulate Alt+T' button is
\* disabled), also when a status timer of an earlier SUCCESS or ERROR fires
\* while the new request is in flight.
C24_LockoutCoversRequest ==
    (unit = "TranslationPlayground" /\ pgInflight # <<>>) => status = "TRANSLATING"

\* the request sent by a submit carries the text, language and tone of the
\* render that was clicked
C25_SendStep ==
    (unit = "App" /\ calls' # calls)
        => LET sent == appInflight'[Len(appInflight')]
           IN  /\ sent.text = inputText /\ sent.to = targetLang /\ sent.tone = tone
               /\ sent.systemInstruction = SystemInstruction(targetLang, tone)

\* the result scheduled when a request settles keeps what that request sent
C25_SettleStep ==
    \A i \in 1..Len(appInflight) : \A reply \in Replies :
        ( /\ unit = "App" /\ restarts' = restarts
          /\ reply.kind # "error" /\ AppSettle(i, reply) )
        => LET due == appTimers'[Len(appTimers')]
           IN  /\ due.text = appInflight[i].text
               /\ due.to = appInflight[i].to
               /\ due.tone = appInflight[i].tone

\* the record created when the 600 ms timer fires keeps them too
C25_RecordStep ==
    ( /\ unit = "App" /\ restarts' = restarts
      /\ appTimers # <<>> /\ appTimers' = Tail(appTimers) )
    => /\ history'.items[1].original = Head(appTimers).text
       /\ history'.items[1].to = Head(appTimers).to
       /\ history'.items[1].tone = Head(appTimers).tone
       /\ history'.items[1].from = "UZ"

\* no other step touches a request in flight or a result that is due
C25_EditStep ==
    (unit = "App" /\ (inputText' # inputText \/ targetLang' # targetLang \/ tone' # tone)
                  /\ restarts' = restarts)
        => UNCHANGED <<appInflight, appTimers, history>>

\* C25: in App every history record describes the request that produced it:
\* its original, to and tone are the text, target language and tone sent to
\* the service for that translation, even if the user edits the text or
\* changes language or tone while the request is in flight or during the
\* 600 ms result delay.
C25_RecordDescribesRequest ==
    [][C25_SendStep /\ C25_SettleStep /\ C25_RecordStep /\ C25_EditStep]_vars

\* a record has just been created whose text, language and tone all differ
\* from what the user has selected meanwhile
C25_Witness ==
    /\ unit = "App" /\ lastOp = "add" /\ effects = <<"sync">>
    /\ history.items[1].original # inputText
    /\ history.items[1].to # targetLang
    /\ history.items[1].tone # tone
    /\ history.items[1].original = <<"a">>

\* C26: in App the result and error displays are mutually exclusive and both
\* are cleared while translating: errorDetails non-null and translatedText
\* non-empty never hold together, and isTranslating implies translatedText =
\* '' and errorDetails = null.
C26_DisplaysExclusive ==
    unit = "App" =>
        /\ ~(errorDetails # None /\ translatedText # <<>>)
        /\ isTranslating => (translatedText = <<>> /\ errorDetails = None)

\* a translation is displayed, then a second submit has failed: the error is
\* shown and the earlier translation is gone
C26_Witness ==
    /\ unit = "App" /\ submits = 2 /\ restarts = 0
    /\ Len(history.items) = 1
    /\ errorDetails # None /\ translatedText = <<>> /\ ~isTranslating

\* C27: in App startup never destroys stored history. When localStorage
\* holds a valid array of 50 records as the component mounts, then in every
\* state of the startup sequence (restore effect, sync effect, re-render),
\* and as long as nothing has been added or purged, the stored value
\* deserializes to that same array.
C27_StartupKeepsVault ==
    (unit = "App" /\ restarts = 0 /\ lastOp = "mount" /\ uuidSeq = MaxHistory)
        => /\ storage # None
           /\ storage[1].kind = "json"
           /\ JsonParse(storage[1]) = Vault(MaxHistory)

\* the outcome of a submit is a success: the result is displayed and one
\* record has been added, no error is shown
C28_Success ==
    /\ translatedText' # <<>> /\ errorDetails' = None
    /\ Len(history'.items) = Len(history.items) + 1
    /\ Tail(history'.items) = history.items

\* the outcome of a submit is a failure: the error is shown, no result is
\* displayed and the history is unchanged
C28_Failure ==
    /\ errorDetails' # None /\ translatedText' = <<>>
    /\ history' = history

\* a submit ends (isTranslating returns to false, or the submit fails before
\* its request is sent) with exactly one of the two outcomes
C28_Step ==
    ( /\ unit = "App" /\ restarts' = restarts
      /\ \/ isTranslating /\ ~isTranslating'
         \/ submits' # submits /\ ~isTranslating' )
    => /\ C28_Success \/ C28_Failure
       /\ ~(C28_Success /\ C28_Failure)

\* C28: in App every accepted submit terminates with exactly one outcome. If
\* the service call settles and timers fire, isTranslating eventually becomes
\* false again, and at that point either translatedText was set and one
\* record was added to the history, or errorDetails was set and the history
\* is unchanged.
C28_OneOutcome ==
    /\ (unit = "App" /\ isTranslating) ~> ~isTranslating
    /\ [][C28_Step]_vars

\* a submit for English in the formal tone has ended with a success
C28_Witness ==
    /\ unit = "App" /\ Interactive /\ submits = 1 /\ restarts = 0
    /\ ~isTranslating /\ appInflight = <<>> /\ appTimers = <<>>
    /\ translatedText = <<"x">> /\ errorDetails = None
    /\ Len(history.items) = 1 /\ calls = 1
    /\ history.items[1].to = "EN" /\ history.items[1].tone = "formal"

====
